---- MODULE Spec2Model ----
(***************************************************************************)
(* Xero bank transaction sync (src/main.py): main() starts one thread per  *)
(* ACTIVE tenant; each thread walks its customers sequentially through     *)
(* token refresh, tenant resolution, fetch, INSERT IGNORE loop, commit and *)
(* refresh_token update.  External calls (HTTP, MySQL) are inputs: each    *)
(* either returns or raises.                                               *)
(***************************************************************************)
EXTENDS Integers, Sequences, FiniteSets

\* ---------------------------------------------------------------- bounds
MaxRuns == 2        \* successive invocations of main() by the scheduler
NumTokens == 2      \* distinct refresh_token values the provider may issue
MaxDateLen == 3     \* tokens in a DateString given to parse_xero_date
MaxTotal == 6       \* |Total| of a transaction given to calculate_transaction_amount

\* ------------------------------------------------------- directory data
\* tenants table rows (id); customers/customer_accounting_settings rows.
\* Tenant 1 has two customers, tenants 2 and 3 one each, tenant 4 none.
TenantIds == {1, 2, 3, 4}
CustomerTable ==
    << [customer_id |-> 1, tenant_id |-> 1],
       [customer_id |-> 2, tenant_id |-> 1],
       [customer_id |-> 3, tenant_id |-> 2],
       [customer_id |-> 4, tenant_id |-> 3] >>
CustomerIds == {CustomerTable[i].customer_id : i \in 1..Len(CustomerTable)}
Tokens == 1..NumTokens
\* a missing DateString (Python's None), as a one-token string no provider sends
NoneString == <<"None">>

\* ------------------------------------------------------------ sequences
RECURSIVE SetToSeq(_)
\* ascending sequence of a finite set of integers
SetToSeq(S) ==
    IF S = {} THEN <<>>
    ELSE LET m == CHOOSE x \in S : \A y \in S : x <= y
         IN <<m>> \o SetToSeq(S \ {m})

Range(s) == {s[i] : i \in 1..Len(s)}

\* ------------------------------------------------------ date parsing
\* A DateString is a sequence of tokens, each standing for the substring it
\* spells.  A parse result is [tag, day]: tag "date" with the day number since
\* 1970-01-01, tag "None", or tag "raise" (an exception leaves the function).
IsoDates == {"1970-01-02"}
IsoTimes == {"00:00:00"}
DigitRuns == {"86400000"}
DateTokens == IsoDates \cup IsoTimes \cup DigitRuns \cup {"T", "/Date(", ")/", "garbage"}

\* days since 1970-01-01 of an ISO date token
DayOfIso(tok) == IF tok = "1970-01-02" THEN 1 ELSE 0

\* int() of a digit run
IntOf(tok) == IF tok = "86400000" THEN 86400000 ELSE 0

NoDate == [tag |-> "None", day |-> 0]
Raised == [tag |-> "raise", day |-> 0]

\* str.replace('T', ' ')
ReplaceT(s) == [i \in 1..Len(s) |-> IF s[i] = "T" THEN " " ELSE s[i]]

\* datetime.fromisoformat(s): "YYYY-MM-DD" or "YYYY-MM-DD HH:MM:SS", else ValueError
FromIsoFormat(s) ==
    IF Len(s) = 1 /\ s[1] \in IsoDates
        THEN [tag |-> "date", day |-> DayOfIso(s[1])]
    ELSE IF Len(s) = 3 /\ s[1] \in IsoDates /\ s[2] = " " /\ s[3] \in IsoTimes
        THEN [tag |-> "date", day |-> DayOfIso(s[1])]
    ELSE Raised

\* re.search(r'/Date\((\d+)', s): the digit run after the first "/Date(" that has one
DateMatch(s) ==
    LET hits == {i \in 1..(Len(s) - 1) : s[i] = "/Date(" /\ s[i + 1] \in DigitRuns}
    IN IF hits = {} THEN ""
       ELSE s[(CHOOSE i \in hits : \A j \in hits : i <= j) + 1]

parse_xero_date(date_string) ==
    IF date_string = NoneString \/ date_string = <<>> THEN NoDate
    ELSE IF "T" \in Range(date_string)
        THEN FromIsoFormat(ReplaceT(date_string))
    ELSE IF date_string[1] = "/Date(" /\ date_string[Len(date_string)] = ")/"
            /\ DateMatch(date_string) # ""
        THEN [tag |-> "date", day |-> (IntOf(DateMatch(date_string)) \div 1000) \div 86400]
    ELSE NoDate

\* ------------------------------------------------------ amount
abs(x) == IF x < 0 THEN -x ELSE x

\* the sign set from the type without the absolute value
calculate_amount_no_abs(transaction_data) ==
    IF transaction_data.Type = "SPEND" THEN 0 - transaction_data.Total
    ELSE transaction_data.Total

calculate_transaction_amount(transaction_data) ==
    LET total == transaction_data.Total
        transaction_type == transaction_data.Type
    IN IF transaction_type = "SPEND" THEN -abs(total)
       ELSE IF transaction_type = "RECEIVE" THEN abs(total)
       ELSE total

\* ---------------------------------------------------------------- state
VARIABLES
    tenants,            \* tenants table: id -> status
    bank_transactions,  \* committed rows of bank_transactions
    refresh_token,      \* customer_accounting_settings: customer_id -> stored refresh_token
    uncommitted,        \* per tenant thread: rows inserted on its connection, not yet committed
    run,                \* number of the current invocation of main() (the clock of created_at)
    mainPc,             \* main(): "load", "start", "join", "done", "returned", "crashed"
    mainTenants,        \* main(): the list `tenants`
    threads,            \* main(): the list `threads` (tenant id of each started thread)
    joined,             \* main(): number of threads already joined
    pc,                 \* per tenant thread: position in process_tenant_transactions
    customers,          \* per thread: the list `customers` (customer_id, creds snapshot)
    ci,                 \* per thread: index of the current customer
    new_refresh_token,  \* per thread: value returned by refresh_access_token (0: unset)
    transactions,       \* per thread: the fetched list
    ti,                 \* per thread: index of the current txn
    inserted_count,     \* per thread
    total_transactions, \* per thread
    printed,            \* per thread: the last line it printed
    custState,          \* per customer, this run: "idle", "done" (its try block completed), "failed" (an except clause ran)
    okKeys,             \* per thread: keys whose INSERT IGNORE returned since the last commit or rollback
    synced,             \* keys whose INSERT IGNORE returned and was then committed, in this run
    prevSynced,         \* the same, of the previous run
    storedBefore,       \* bank_transactions when this run started
    amtIn, amtOut,      \* input and result of calculate_transaction_amount
    dateIn, dateOut     \* input and result of parse_xero_date

dbVars == <<bank_transactions, refresh_token, uncommitted>>
mainLocals == <<mainPc, mainTenants, threads, joined>>
threadLocals == <<customers, ci, new_refresh_token, transactions, ti, inserted_count, total_transactions>>
ghostVars == <<custState, okKeys, synced, prevSynced, storedBefore>>
syncVars == <<tenants, dbVars, run, mainLocals, pc, threadLocals, printed, ghostVars>>
fnVars == <<amtIn, amtOut, dateIn, dateOut>>
vars == <<syncVars, fnVars>>

\* ------------------------------------------------------- remote data
\* BankTransactions objects the provider may return (fields the sync reads).
Txn1 == [BankTransactionID |-> "a", Type |-> "SPEND", Total |-> 5,
         DateString |-> <<"1970-01-02", "T", "00:00:00">>]
Txn2 == [BankTransactionID |-> "a", Type |-> "RECEIVE", Total |-> -5,
         DateString |-> <<"/Date(", "86400000", ")/">>]
Txn3 == [BankTransactionID |-> "b", Type |-> "OVERPAYMENT", Total |-> 3,
         DateString |-> <<"T", "garbage">>]
RemoteLists == { <<>>, <<Txn1, Txn2>>, <<Txn1, Txn3>> }

\* ------------------------------------------------------------ the store
\* the unique index of bank_transactions that INSERT IGNORE relies on
UniqueKey(row) == <<row.tenant_id, row.customer_id, row.transaction_id>>
Keys(rows) == {UniqueKey(r) : r \in rows}

\* uuid4(): a value no row carries; drawn from the calling thread's own range
uuid4(rows, tenant_id) ==
    LET used == {r.id[2] : r \in {x \in rows : x.id[1] = tenant_id}}
    IN <<tenant_id, CHOOSE k \in 1..(Cardinality(used) + 1) : k \notin used>>

\* the VALUES tuple of the INSERT
NewRow(txn, tenant_id, customer_id, id, now) ==
    [id |-> id, tenant_id |-> tenant_id, customer_id |-> customer_id,
     transaction_id |-> txn.BankTransactionID,
     transaction_date |-> parse_xero_date(txn.DateString),
     amount |-> calculate_transaction_amount(txn),
     total |-> txn.Total, transaction_type |-> txn.Type,
     imported_from |-> "XERO", reconciliation_status |-> "UNMATCHED",
     created_at |-> now]

\* INSERT without the duplicate check
insert_always(pending, committed, txn, tenant_id, customer_id, now) ==
    pending \cup {NewRow(txn, tenant_id, customer_id,
                         uuid4(committed \cup pending, tenant_id), now)}

\* cursor.execute("INSERT IGNORE ..."): the connection's uncommitted rows afterwards
insert_transaction_record(pending, committed, txn, tenant_id, customer_id, now) ==
    LET row == NewRow(txn, tenant_id, customer_id,
                      uuid4(committed \cup pending, tenant_id), now)
    IN IF UniqueKey(row) \in Keys(committed \cup pending)
       THEN pending
       ELSE pending \cup {row}

\* ------------------------------------------------------- directory reads
RECURSIVE CustomersOf(_, _)
\* SELECT ... FROM customers c JOIN customer_accounting_settings s WHERE c.tenant_id = %s
CustomersOf(table, tenant_id) ==
    IF table = <<>> THEN <<>>
    ELSE LET rest == CustomersOf(Tail(table), tenant_id)
         IN IF Head(table).tenant_id = tenant_id
            THEN <<[customer_id |-> Head(table).customer_id,
                    refresh_token |-> refresh_token[Head(table).customer_id]]>> \o rest
            ELSE rest

get_customers_by_tenant(tenant_id) == CustomersOf(CustomerTable, tenant_id)

\* SELECT id, tenant_code FROM tenants WHERE status = 'ACTIVE'
get_all_active_tenants == SetToSeq({t \in TenantIds : tenants[t] = "ACTIVE"})

\* ------------------------------------------------------------- initial
\* status tables of the tenants table the sync may find
Deployments ==
    { <<"ACTIVE", "SUSPENDED", "SUSPENDED", "SUSPENDED">>,
      <<"SUSPENDED", "ACTIVE", "ACTIVE", "SUSPENDED">>,
      <<"SUSPENDED", "SUSPENDED", "SUSPENDED", "ACTIVE">>,
      <<"SUSPENDED", "SUSPENDED", "SUSPENDED", "SUSPENDED">> }
Line(line, customer, n) == [line |-> line, customer |-> customer, n |-> n]
NoLine == Line("", 0, 0)
IdleAmount == [done |-> FALSE, amount |-> 0]
IdleDate == [done |-> FALSE, result |-> NoDate]
TxnTypes == {"SPEND", "RECEIVE", "OVERPAYMENT", ""}
AmountInputs == [Total : (0 - MaxTotal)..MaxTotal, Type : TxnTypes]
DateStrings == {NoneString} \cup UNION {[1..n -> DateTokens] : n \in 0..MaxDateLen}

InitSync ==
    /\ tenants \in Deployments
    /\ bank_transactions = {}
    /\ refresh_token = [c \in CustomerIds |-> 1]
    /\ uncommitted = [t \in TenantIds |-> {}]
    /\ run = 1
    /\ mainPc = "load"
    /\ mainTenants = <<>>
    /\ threads = <<>>
    /\ joined = 0
    /\ pc = [t \in TenantIds |-> "unstarted"]
    /\ customers = [t \in TenantIds |-> <<>>]
    /\ ci = [t \in TenantIds |-> 0]
    /\ new_refresh_token = [t \in TenantIds |-> 0]
    /\ transactions = [t \in TenantIds |-> <<>>]
    /\ ti = [t \in TenantIds |-> 0]
    /\ inserted_count = [t \in TenantIds |-> 0]
    /\ total_transactions = [t \in TenantIds |-> 0]
    /\ printed = [t \in TenantIds |-> NoLine]
    /\ custState = [c \in CustomerIds |-> "idle"]
    /\ okKeys = [t \in TenantIds |-> {}]
    /\ synced = {}
    /\ prevSynced = {}
    /\ storedBefore = {}

InitFn ==
    /\ amtIn = [Total |-> 0, Type |-> ""]
    /\ amtOut = IdleAmount
    /\ dateIn = NoneString
    /\ dateOut = IdleDate

Init == InitSync /\ InitFn

\* ------------------------------------------- process_tenant_transactions
Terminated == {"finished", "crashed"}
Cur(t) == customers[t][ci[t]].customer_id
Creds(t) == customers[t][ci[t]]

\* the for loop takes the next customer, or ends
NextCustomer(t) ==
    /\ ci' = [ci EXCEPT ![t] = @ + 1]
    /\ pc' = [pc EXCEPT ![t] = IF ci[t] + 1 <= Len(customers[t]) THEN "refresh" ELSE "close"]
    /\ new_refresh_token' = [new_refresh_token EXCEPT ![t] = 0]
    /\ transactions' = [transactions EXCEPT ![t] = <<>>]
    /\ ti' = [ti EXCEPT ![t] = 0]
    /\ inserted_count' = [inserted_count EXCEPT ![t] = 0]

\* the exception is not caught at the customer boundary: the thread dies
handle_customer_error_uncaught(t) ==
    /\ printed' = [printed EXCEPT ![t] = Line("customer_error", Cur(t), 0)]
    /\ custState' = [custState EXCEPT ![Cur(t)] = "failed"]
    /\ pc' = [pc EXCEPT ![t] = "crashed"]
    /\ UNCHANGED <<ci, new_refresh_token, transactions, ti, inserted_count>>

\* the failed customer is tried again
handle_customer_error_retry(t) ==
    /\ printed' = [printed EXCEPT ![t] = Line("customer_error", Cur(t), 0)]
    /\ custState' = [custState EXCEPT ![Cur(t)] = "failed"]
    /\ pc' = [pc EXCEPT ![t] = "refresh"]
    /\ new_refresh_token' = [new_refresh_token EXCEPT ![t] = 0]
    /\ transactions' = [transactions EXCEPT ![t] = <<>>]
    /\ ti' = [ti EXCEPT ![t] = 0]
    /\ inserted_count' = [inserted_count EXCEPT ![t] = 0]
    /\ UNCHANGED ci

\* an exception reaches the customer's except clauses (line 233-238): it is
\* printed and the loop goes on
handle_customer_error(t) ==
    /\ printed' = [printed EXCEPT ![t] = Line("customer_error", Cur(t), 0)]
    /\ custState' = [custState EXCEPT ![Cur(t)] = "failed"]
    /\ NextCustomer(t)

\* the try block of a customer ran to its end
customer_done(t) ==
    /\ custState' = [custState EXCEPT ![Cur(t)] = "done"]
    /\ NextCustomer(t)

\* line 186-191: load the tenant's customers; none: return
LoadCustomers(t) ==
    /\ pc[t] = "started"
    /\ \/ /\ customers' = [customers EXCEPT ![t] = get_customers_by_tenant(t)]
          /\ IF get_customers_by_tenant(t) = <<>>
             THEN /\ pc' = [pc EXCEPT ![t] = "finished"]
                  /\ printed' = [printed EXCEPT ![t] = Line("no_customers", 0, 0)]
             ELSE /\ pc' = [pc EXCEPT ![t] = "connect"]
                  /\ printed' = [printed EXCEPT ![t] = Line("started", 0, 0)]
       \/ \* the query raises: the thread dies
          /\ pc' = [pc EXCEPT ![t] = "crashed"]
          /\ printed' = [printed EXCEPT ![t] = Line("started", 0, 0)]
          /\ UNCHANGED customers
    /\ UNCHANGED <<tenants, dbVars, run, mainLocals, ci, new_refresh_token, transactions,
                   ti, inserted_count, total_transactions, ghostVars, fnVars>>

\* line 193-196: open the thread's connection
Connect(t) ==
    /\ pc[t] = "connect"
    /\ \/ /\ pc' = [pc EXCEPT ![t] = "refresh"]
          /\ ci' = [ci EXCEPT ![t] = 1]
          /\ total_transactions' = [total_transactions EXCEPT ![t] = 0]
       \/ /\ pc' = [pc EXCEPT ![t] = "crashed"]
          /\ UNCHANGED <<ci, total_transactions>>
    /\ UNCHANGED <<tenants, dbVars, run, mainLocals, customers, new_refresh_token,
                   transactions, ti, inserted_count, printed, ghostVars, fnVars>>

\* line 200-203: json.loads of the credentials, then the token exchange
RefreshAccessToken(t) ==
    /\ pc[t] = "refresh"
    /\ \/ \E new \in Tokens :
            /\ new_refresh_token' = [new_refresh_token EXCEPT ![t] = new]
            /\ pc' = [pc EXCEPT ![t] = "resolve"]
            /\ UNCHANGED <<ci, transactions, ti, inserted_count, printed, custState>>
       \/ \* json.loads raises, the POST raises, or its body lacks a key
          handle_customer_error(t)
    /\ UNCHANGED <<tenants, dbVars, run, mainLocals, customers, total_transactions,
                   okKeys, synced, prevSynced, storedBefore, fnVars>>

\* the fetch is made without a resolved tenant id, whatever the call returned
ResolveTenantSkipped(t) ==
    /\ pc[t] = "resolve"
    /\ pc' = [pc EXCEPT ![t] = "insert"]
    /\ transactions' = [transactions EXCEPT ![t] = <<Txn1>>]
    /\ ti' = [ti EXCEPT ![t] = 1]
    /\ UNCHANGED <<ci, new_refresh_token, inserted_count, printed, custState>>
    /\ UNCHANGED <<tenants, dbVars, run, mainLocals, customers, total_transactions,
                   okKeys, synced, prevSynced, storedBefore, fnVars>>

\* line 206: get_xero_tenant_id
ResolveTenant(t) ==
    /\ pc[t] = "resolve"
    /\ \/ /\ pc' = [pc EXCEPT ![t] = "fetch"]
          /\ UNCHANGED <<ci, new_refresh_token, transactions, ti, inserted_count,
                         printed, custState>>
       \/ \* the GET raises, or the connection list is empty (Exception)
          handle_customer_error(t)
    /\ UNCHANGED <<tenants, dbVars, run, mainLocals, customers, total_transactions,
                   okKeys, synced, prevSynced, storedBefore, fnVars>>

\* line 209-213: fetch_xero_transactions, inserted_count = 0
FetchTransactions(t) ==
    /\ pc[t] = "fetch"
    /\ \/ \E list \in RemoteLists :
            /\ transactions' = [transactions EXCEPT ![t] = list]
            /\ printed' = [printed EXCEPT ![t] = Line("fetched", Cur(t), Len(list))]
            /\ ti' = [ti EXCEPT ![t] = 1]
            /\ inserted_count' = [inserted_count EXCEPT ![t] = 0]
            /\ pc' = [pc EXCEPT ![t] = IF list = <<>> THEN "commit" ELSE "insert"]
            /\ UNCHANGED <<ci, new_refresh_token, custState>>
       \/ handle_customer_error(t)
    /\ UNCHANGED <<tenants, dbVars, run, mainLocals, customers, total_transactions,
                   okKeys, synced, prevSynced, storedBefore, fnVars>>

\* the loop is left at the first entry that ends
NextTxnBreak(t) ==
    /\ ti' = [ti EXCEPT ![t] = @ + 1]
    /\ pc' = [pc EXCEPT ![t] = "commit"]

\* the for loop over transactions takes the next txn, or ends
NextTxn(t) ==
    /\ ti' = [ti EXCEPT ![t] = @ + 1]
    /\ pc' = [pc EXCEPT ![t] = IF ti[t] + 1 <= Len(transactions[t]) THEN "insert" ELSE "commit"]

\* line 214-222: one iteration of the insert loop
InsertTransaction(t) ==
    /\ pc[t] = "insert"
    /\ LET txn == transactions[t][ti[t]]
           key == <<t, Cur(t), txn.BankTransactionID>>
       IN \/ \* parse_xero_date raises: not a mysql.connector.Error, the customer fails
             /\ parse_xero_date(txn.DateString) = Raised
             /\ handle_customer_error(t)
             /\ UNCHANGED <<uncommitted, okKeys>>
          \/ \* cursor.execute raises mysql.connector.Error: printed, next txn
             /\ parse_xero_date(txn.DateString) # Raised
             /\ printed' = [printed EXCEPT ![t] = Line("db_error", Cur(t), 0)]
             /\ NextTxn(t)
             /\ UNCHANGED <<uncommitted, okKeys, inserted_count, ci, new_refresh_token,
                            transactions, custState>>
          \/ \* the statement returns (it waits while another connection holds the key)
             /\ parse_xero_date(txn.DateString) # Raised
             /\ \A u \in TenantIds \ {t} : key \notin Keys(uncommitted[u])
             /\ uncommitted' = [uncommitted EXCEPT ![t] =
                    insert_transaction_record(@, bank_transactions, txn, t, Cur(t), run)]
             /\ okKeys' = [okKeys EXCEPT ![t] = @ \cup {key}]
             /\ inserted_count' = [inserted_count EXCEPT ![t] = @ + 1]
             /\ NextTxn(t)
             /\ UNCHANGED <<ci, new_refresh_token, transactions, printed, custState>>
    /\ UNCHANGED <<tenants, bank_transactions, refresh_token, run, mainLocals, customers,
                   total_transactions, synced, prevSynced, storedBefore, fnVars>>

\* one connection for all threads: the commit takes every thread's pending rows
conn_commit_shared(t) ==
    /\ bank_transactions' = bank_transactions \cup UNION {uncommitted[u] : u \in TenantIds}
    /\ uncommitted' = [u \in TenantIds |-> {}]

\* a full refresh: the customer's stored rows give way to the ones just inserted
conn_commit_replace(t) ==
    /\ bank_transactions' =
          {r \in bank_transactions : r.customer_id # Cur(t)} \cup uncommitted[t]
    /\ uncommitted' = [uncommitted EXCEPT ![t] = {}]

\* line 224: conn.commit() on the thread's own connection
conn_commit(t) ==
    /\ bank_transactions' = bank_transactions \cup uncommitted[t]
    /\ uncommitted' = [uncommitted EXCEPT ![t] = {}]

\* line 224-229: conn.commit(), the count is added and printed, the tokens are compared
Commit(t) ==
    /\ pc[t] = "commit"
    /\ \/ /\ conn_commit(t)
          /\ synced' = synced \cup okKeys[t]
          /\ okKeys' = [okKeys EXCEPT ![t] = {}]
          /\ total_transactions' = [total_transactions EXCEPT ![t] = @ + inserted_count[t]]
          /\ printed' = [printed EXCEPT ![t] = Line("inserted", Cur(t), inserted_count[t])]
          /\ IF Creds(t).refresh_token # new_refresh_token[t]
             THEN /\ pc' = [pc EXCEPT ![t] = "update_token"]
                  /\ UNCHANGED <<ci, new_refresh_token, transactions, ti, inserted_count,
                                 custState>>
             ELSE customer_done(t)
       \/ \* the commit raises: the server rolls the transaction back, the customer fails
          /\ uncommitted' = [uncommitted EXCEPT ![t] = {}]
          /\ okKeys' = [okKeys EXCEPT ![t] = {}]
          /\ handle_customer_error(t)
          /\ UNCHANGED <<bank_transactions, synced, total_transactions>>
    /\ UNCHANGED <<tenants, refresh_token, run, mainLocals, customers, prevSynced,
                   storedBefore, fnVars>>

\* UPDATE customer_accounting_settings SET api_credentials = JSON_SET(...); commit
update_refresh_token_in_db(customer_id, new) ==
    refresh_token' = [refresh_token EXCEPT ![customer_id] = new]

\* line 230-231
UpdateRefreshToken(t) ==
    /\ pc[t] = "update_token"
    /\ \/ /\ update_refresh_token_in_db(Cur(t), new_refresh_token[t])
          /\ printed' = [printed EXCEPT ![t] = Line("token_updated", Cur(t), 0)]
          /\ customer_done(t)
       \/ \* connecting or the UPDATE raises: the customer fails, its rows stay committed
          /\ handle_customer_error(t)
          /\ UNCHANGED refresh_token
    /\ UNCHANGED <<tenants, bank_transactions, uncommitted, run, mainLocals, customers,
                   total_transactions, okKeys, synced, prevSynced, storedBefore, fnVars>>

\* line 240-242: closing the connection discards what it has not committed
CloseConnection(t) ==
    /\ pc[t] = "close"
    /\ uncommitted' = [uncommitted EXCEPT ![t] = {}]
    /\ okKeys' = [okKeys EXCEPT ![t] = {}]
    /\ pc' = [pc EXCEPT ![t] = "finished"]
    /\ printed' = [printed EXCEPT ![t] = Line("finished", 0, total_transactions[t])]
    /\ UNCHANGED <<tenants, bank_transactions, refresh_token, run, mainLocals, threadLocals,
                   custState, synced, prevSynced, storedBefore, fnVars>>

ThreadStep(t) ==
    \/ LoadCustomers(t)
    \/ Connect(t)
    \/ RefreshAccessToken(t)
    \/ ResolveTenant(t)
    \/ FetchTransactions(t)
    \/ InsertTransaction(t)
    \/ Commit(t)
    \/ UpdateRefreshToken(t)
    \/ CloseConnection(t)

\* ------------------------------------------------------------------ main
\* line 249-255
MainLoadTenants ==
    /\ mainPc = "load"
    /\ \/ /\ mainTenants' = get_all_active_tenants
          /\ mainPc' = IF get_all_active_tenants = <<>> THEN "returned" ELSE "start"
       \/ \* the query raises: main ends with the exception
          /\ mainPc' = "crashed"
          /\ UNCHANGED mainTenants
    /\ UNCHANGED <<tenants, dbVars, run, threads, joined, pc, threadLocals, printed,
                   ghostVars, fnVars>>

\* line 258-265: one iteration of the start loop
MainStartThread ==
    /\ mainPc = "start"
    /\ LET tenant == mainTenants[Len(threads) + 1]
       IN /\ threads' = Append(threads, tenant)
          /\ pc' = [pc EXCEPT ![tenant] = "started"]
    /\ mainPc' = IF Len(threads) + 1 = Len(mainTenants) THEN "join" ELSE "start"
    /\ UNCHANGED <<tenants, dbVars, run, mainTenants, joined, threadLocals, printed,
                   ghostVars, fnVars>>

\* join hands the thread's exception on to main
MainJoinRaise ==
    /\ mainPc = "join"
    /\ joined < Len(threads)
    /\ pc[threads[joined + 1]] \in Terminated
    /\ IF pc[threads[joined + 1]] = "crashed"
          THEN mainPc' = "crashed" /\ joined' = joined
          ELSE mainPc' = mainPc /\ joined' = joined + 1
    /\ UNCHANGED <<tenants, dbVars, run, mainTenants, threads, pc, threadLocals,
                   printed, ghostVars, fnVars>>

\* the loop goes on without waiting for the thread
MainJoinNoWait ==
    /\ mainPc = "join"
    /\ joined < Len(threads)
    /\ joined' = joined + 1
    /\ UNCHANGED <<tenants, dbVars, run, mainPc, mainTenants, threads, pc, threadLocals,
                   printed, ghostVars, fnVars>>

\* line 268-269: thread.join() returns once the thread has ended
MainJoin ==
    /\ mainPc = "join"
    /\ joined < Len(threads)
    /\ pc[threads[joined + 1]] \in Terminated
    /\ joined' = joined + 1
    /\ UNCHANGED <<tenants, dbVars, run, mainPc, mainTenants, threads, pc, threadLocals,
                   printed, ghostVars, fnVars>>

\* line 271: the completion report
MainReport ==
    /\ mainPc = "join"
    /\ joined = Len(threads)
    /\ mainPc' = "done"
    /\ UNCHANGED <<tenants, dbVars, run, mainTenants, threads, joined, pc, threadLocals,
                   printed, ghostVars, fnVars>>

\* the scheduler invokes main() again after the process has ended
NextRun ==
    /\ mainPc \in {"done", "returned", "crashed"}
    /\ run < MaxRuns
    /\ run' = run + 1
    /\ mainPc' = "load"
    /\ mainTenants' = <<>>
    /\ threads' = <<>>
    /\ joined' = 0
    /\ pc' = [t \in TenantIds |-> "unstarted"]
    /\ customers' = [t \in TenantIds |-> <<>>]
    /\ ci' = [t \in TenantIds |-> 0]
    /\ total_transactions' = [t \in TenantIds |-> 0]
    /\ printed' = [t \in TenantIds |-> NoLine]
    /\ custState' = [c \in CustomerIds |-> "idle"]
    /\ prevSynced' = synced
    /\ synced' = {}
    /\ storedBefore' = bank_transactions
    /\ UNCHANGED <<tenants, dbVars, new_refresh_token, transactions, ti, inserted_count,
                   okKeys, fnVars>>

Next ==
    \/ MainLoadTenants
    \/ MainStartThread
    \/ MainJoin
    \/ MainReport
    \/ NextRun
    \/ \E t \in TenantIds : ThreadStep(t)

Spec == Init /\ [][Next]_vars

\* one execution of main() (line 274-275), from the first line to the report
MainRun ==
    \/ MainLoadTenants
    \/ MainStartThread
    \/ MainJoin
    \/ MainReport
    \/ \E t \in TenantIds : ThreadStep(t)

\* fairness: the interpreter schedules every live thread, and every external
\* call returns
FairSpec ==
    /\ Init /\ [][MainRun]_vars
    /\ WF_vars(MainLoadTenants) /\ WF_vars(MainStartThread)
    /\ WF_vars(MainJoin) /\ WF_vars(MainReport)
    /\ \A t \in TenantIds : WF_vars(ThreadStep(t))

\* ------------------------------------------- the normalizer on its own
\* the sync at rest, no tenant to process
InitIdle ==
    /\ InitSync
    /\ tenants = [t \in TenantIds |-> "SUSPENDED"]

AmountApply ==
    /\ ~amtOut.done
    /\ amtOut' = [done |-> TRUE, amount |-> calculate_transaction_amount(amtIn)]
    /\ UNCHANGED <<syncVars, amtIn, dateIn, dateOut>>

AmountDraw ==
    /\ amtOut.done
    /\ amtIn' \in AmountInputs
    /\ amtOut' = IdleAmount
    /\ UNCHANGED <<syncVars, dateIn, dateOut>>

InitAmount ==
    /\ InitIdle
    /\ amtIn \in AmountInputs
    /\ amtOut = IdleAmount
    /\ dateIn = NoneString
    /\ dateOut = IdleDate

NextAmount == AmountApply \/ AmountDraw

SpecAmount == InitAmount /\ [][NextAmount]_vars

DateApply ==
    /\ ~dateOut.done
    /\ dateOut' = [done |-> TRUE, result |-> parse_xero_date(dateIn)]
    /\ UNCHANGED <<syncVars, dateIn, amtIn, amtOut>>

DateDraw ==
    /\ dateOut.done
    /\ dateIn' \in DateStrings
    /\ dateOut' = IdleDate
    /\ UNCHANGED <<syncVars, amtIn, amtOut>>

InitDate ==
    /\ InitIdle
    /\ dateIn \in DateStrings
    /\ dateOut = IdleDate
    /\ amtIn = [Total |-> 0, Type |-> ""]
    /\ amtOut = IdleAmount

NextDate == DateApply \/ DateDraw

SpecDate == InitDate /\ [][NextDate]_vars

\* ================================================================ claims
RowsOf(rows, customer_id) == {r \in rows : r.customer_id = customer_id}

\* C1: a run of main() that completes, and in which only transactions are
\* inserted and committed that the previous run also inserted (or skipped) and
\* committed - as with unchanged remote data and the same external outcomes -
\* leaves the stored rows exactly as the previous run left them.
C1_Idempotent ==
    (mainPc = "done" /\ run >= 2 /\ synced \subseteq prevSynced)
        => bank_transactions = storedBefore

\* a second run has completed, re-synced what the first run stored, and added nothing
C1_Witness ==
    /\ mainPc = "done" /\ run = 2
    /\ synced = prevSynced /\ synced # {}
    /\ Keys(bank_transactions) = synced

\* C2: the count a customer's worker prints (line 226) equals the number of
\* rows added to the store for that customer in this run.
C2_CountIsRowsAdded ==
    \A t \in TenantIds :
        printed[t].line = "inserted"
            => printed[t].n =
                 Cardinality(RowsOf(bank_transactions \ storedBefore, printed[t].customer))

\* C6: no two stored rows share (tenant_id, customer_id, transaction_id).
C6_UniqueTriple ==
    \A r1, r2 \in bank_transactions :
        (/\ r1.tenant_id = r2.tenant_id
         /\ r1.customer_id = r2.customer_id
         /\ r1.transaction_id = r2.transaction_id) => r1 = r2

\* in a later run a thread re-inserted a stored key while another thread holds
\* uncommitted rows of its own
C6_Witness ==
    /\ run >= 2
    /\ \E t, u \in TenantIds :
          /\ t # u
          /\ okKeys[t] \cap Keys(bank_transactions) # {}
          /\ uncommitted[u] # {}

\* C10: exactly the ACTIVE tenants get a thread, one each, and the completion
\* report comes only after every started thread has ended.
ActiveTenants == {t \in TenantIds : tenants[t] = "ACTIVE"}
C10_OrchestratorJoin ==
    /\ \A i, j \in 1..Len(threads) : threads[i] = threads[j] => i = j
    /\ Range(threads) \subseteq ActiveTenants
    /\ \A t \in TenantIds : pc[t] # "unstarted" => t \in Range(threads)
    /\ mainPc \in {"join", "done"} => Range(threads) = ActiveTenants
    /\ mainPc = "done" => \A t \in ActiveTenants : pc[t] \in Terminated

\* the report is out; one thread died, another finished, the other tenants never ran
C10_Witness ==
    /\ mainPc = "done"
    /\ \E t, u \in ActiveTenants : pc[t] = "crashed" /\ pc[u] = "finished"
    /\ \E t \in TenantIds \ ActiveTenants : pc[t] = "unstarted"

\* ------------------------------------------------------------ C3, C4, C7
InPipeline(t) ==
    pc[t] \in {"refresh", "resolve", "fetch", "insert", "commit", "update_token"}
\* this step ends the current customer's worker of thread t
WorkerEnds(t) == InPipeline(t) /\ ci'[t] = ci[t] + 1
\* ... with its try block completed
WorkerCompletes(t) == WorkerEnds(t) /\ custState'[Cur(t)] = "done"

\* C3: when the exchange returned a refresh token other than the stored one,
\* the stored one equals it when the customer's worker ends; every exchange
\* sends the value stored at that time (so the next run sends the new one);
\* the credential is written only when the returned token differs.
C3_CredentialRotation ==
    [][\A t \in TenantIds :
          /\ (/\ WorkerEnds(t)
              /\ new_refresh_token[t] # 0
              /\ new_refresh_token[t] # Creds(t).refresh_token)
                => refresh_token'[Cur(t)] = new_refresh_token[t]
          /\ pc'[t] = "refresh"
                => customers'[t][ci'[t]].refresh_token
                     = refresh_token'[customers'[t][ci'[t]].customer_id]
          /\ pc'[t] = "update_token"
                => new_refresh_token'[t] # customers'[t][ci'[t]].refresh_token
      ]_vars

\* C4: a customer's failure never ends the thread: the loop takes the next
\* customer (or closes after the last); a thread dies only before its first
\* customer; a finished thread has processed every customer; and a customer
\* whose worker completes with every insert returned has all its fetched
\* transactions in the committed rows.
C4_CustomerIsolation ==
    [][\A t \in TenantIds :
          /\ pc'[t] = "crashed" => ci'[t] = 0
          /\ pc'[t] = "finished"
                => \A i \in 1..Len(customers'[t]) :
                      custState'[customers'[t][i].customer_id] \in {"done", "failed"}
          /\ (WorkerEnds(t) /\ custState'[Cur(t)] = "failed")
                => pc'[t] = IF ci[t] < Len(customers[t]) THEN "refresh" ELSE "close"
          /\ (WorkerCompletes(t) /\ inserted_count[t] = Len(transactions[t]))
                => \A i \in 1..Len(transactions[t]) :
                      <<t, Cur(t), transactions[t][i].BankTransactionID>>
                          \in Keys(bank_transactions')
      ]_vars

\* customer 1 failed, customer 2 of the same tenant completed and its rows are stored
C4_Witness ==
    /\ custState[1] = "failed" /\ custState[2] = "done"
    /\ RowsOf(bank_transactions \ storedBefore, 2) # {}

\* ids that occur more than once in a fetched list
DupIds(list) ==
    {list[i].BankTransactionID :
        i \in {k \in 1..Len(list) :
                 \E j \in 1..Len(list) :
                    j # k /\ list[j].BankTransactionID = list[k].BankTransactionID}}
StoredWithKey(rows, key) == {r \in rows : UniqueKey(r) = key}

\* C7 as stated: after the worker completes, exactly one row is stored for an
\* id that was fetched twice and was not stored before.
C7_ExactlyOneRow ==
    [][\A t \in TenantIds :
          WorkerCompletes(t)
            => \A id \in DupIds(transactions[t]) :
                  <<t, Cur(t), id>> \notin Keys(storedBefore)
                    => Cardinality(StoredWithKey(bank_transactions', <<t, Cur(t), id>>)) = 1
      ]_vars

\* C7 amended: at most one row; exactly one when an insert of that id returned
\* without a database error.
C7_AtMostOneRow ==
    [][\A t \in TenantIds :
          WorkerCompletes(t)
            => \A id \in DupIds(transactions[t]) :
                  <<t, Cur(t), id>> \notin Keys(storedBefore)
                    => LET n == Cardinality(StoredWithKey(bank_transactions', <<t, Cur(t), id>>))
                       IN /\ n <= 1
                          /\ <<t, Cur(t), id>> \in synced' => n = 1
      ]_vars

\* a worker completed having inserted two entries: one row was added
C7_Witness ==
    \E t \in TenantIds :
        /\ printed[t].line = "inserted" /\ printed[t].n = 2
        /\ custState[printed[t].customer] = "done"
        /\ Cardinality(RowsOf(bank_transactions \ storedBefore, printed[t].customer)) = 1

\* ---------------------------------------------------------------- C5
\* C5: a thread that dies leaves the other threads' state and the store
\* alone, and from there every started thread still ends and main prints its
\* completion report.
C5_TenantIsolation ==
    /\ [][\A x \in TenantIds :
            (pc[x] # "crashed" /\ pc'[x] = "crashed")
              => /\ bank_transactions' = bank_transactions
                 /\ mainPc' = mainPc
                 /\ \A y \in TenantIds \ {x} :
                       pc'[y] = pc[y] /\ uncommitted'[y] = uncommitted[y]]_vars
    /\ \A x \in TenantIds :
          (pc[x] = "crashed")
             ~> (mainPc = "done" /\ \A y \in ActiveTenants : pc[y] \in Terminated)

\* tenant x died, tenant y finished and its rows of this run are stored, main reported
C5_Witness ==
    /\ mainPc = "done"
    /\ \E x, y \in ActiveTenants :
          /\ pc[x] = "crashed" /\ pc[y] = "finished"
          /\ \E r \in bank_transactions \ storedBefore : r.tenant_id = y

\* ------------------------------------------------------------ C8, C9
\* C8: SPEND gives -|Total|, RECEIVE gives +|Total|, any other type Total.
C8_SignLaw ==
    amtOut.done =>
        LET total == amtIn.Total
            amount == amtOut.amount
        IN /\ amtIn.Type = "SPEND" => (amount <= 0 /\ amount * amount = total * total)
           /\ amtIn.Type = "RECEIVE" => (amount >= 0 /\ amount * amount = total * total)
           /\ amtIn.Type \notin {"SPEND", "RECEIVE"} => amount = total

\* a SPEND with a negative Total stays negative
C8_Witness ==
    /\ amtOut.done /\ amtIn.Type = "SPEND"
    /\ amtIn.Total < 0 /\ amtOut.amount = amtIn.Total

\* "YYYY-MM-DDTHH:MM:SS"
ValidIsoDateTime(s) ==
    Len(s) = 3 /\ s[1] \in IsoDates /\ s[2] = "T" /\ s[3] \in IsoTimes
\* "/Date(<digits>...)/"
WellFormedWrapper(s) ==
    Len(s) >= 3 /\ s[1] = "/Date(" /\ s[2] \in DigitRuns /\ s[Len(s)] = ")/"

\* C9: for every input that is neither a valid date-time nor a well-formed
\* wrapper, parse_xero_date returns the absent-date value (nothing is raised).
C9_DateNeverFails ==
    (dateOut.done /\ ~ValidIsoDateTime(dateIn) /\ ~WellFormedWrapper(dateIn))
        => dateOut.result = NoDate

\* ---------------------------------------------------------------- C11
\* C11 as stated: a run of main never ends without its completion report.
C11_NeverEndsWithoutReport == mainPc \notin {"returned", "crashed"}

\* C11 amended: once the tenants are loaded and a thread is to be started, the
\* run reaches its completion report; main ends without it only before any
\* thread was started (no ACTIVE tenant, or the tenants query failed), and a
\* thread dies only before its first customer, so no customer failure ends
\* the run or a thread abnormally.
C11_RunTermination ==
    /\ [](mainPc \in {"returned", "crashed"}
            => (threads = <<>> /\ \A t \in TenantIds : pc[t] = "unstarted"))
    /\ [](\A t \in TenantIds : pc[t] = "crashed" => ci[t] = 0)
    /\ (mainPc = "start") ~> (mainPc = "done")

\* the report is out although every customer of tenant 1 failed
C11_Witness ==
    /\ mainPc = "done" /\ pc[1] = "finished"
    /\ custState[1] = "failed" /\ custState[2] = "failed"

\* ---------------------------------------------------------------- C12
\* C12: a row becomes durable only in a commit step of the thread whose
\* current customer it belongs to, and a thread reaches its commit step only
\* after every fetched transaction has been attempted.
C12_CommitScope ==
    [][/\ \A r \in bank_transactions' \ bank_transactions :
             \E t \in TenantIds :
                 pc[t] = "commit" /\ r.tenant_id = t /\ r.customer_id = Cur(t)
       /\ \A t \in TenantIds :
             pc'[t] = "commit" => ti'[t] = Len(transactions'[t]) + 1
      ]_vars

\* ---------------------------------------------------------------- C13
\* the step of thread t is an insert that ended with a database error
DbErrorStep(t) ==
    pc[t] = "insert" /\ ti'[t] = ti[t] + 1 /\ inserted_count'[t] = inserted_count[t]

\* C13: an insert that raises a database error does not fail the customer:
\* the loop goes to the next fetched transaction (to the commit after the
\* last), the entry is not counted, the rows inserted so far stay pending for
\* the commit; and the commit that succeeds makes them durable and goes on to
\* the credential step or the normal end of the worker.
C13_RowFailureTolerated ==
    [][\A t \in TenantIds :
          /\ DbErrorStep(t)
               => /\ custState'[Cur(t)] = custState[Cur(t)]
                  /\ custState'[Cur(t)] # "failed"
                  /\ ci'[t] = ci[t]
                  /\ pc'[t] = IF ti[t] < Len(transactions[t]) THEN "insert" ELSE "commit"
                  /\ uncommitted'[t] = uncommitted[t]
                  /\ transactions'[t] = transactions[t]
          /\ (pc[t] = "commit" /\ inserted_count[t] < Len(transactions[t])
                /\ <<pc'[t], ci'[t]>> # <<pc[t], ci[t]>>
                /\ custState'[Cur(t)] # "failed")
               => /\ uncommitted[t] \subseteq bank_transactions'
                  /\ printed'[t] = Line("inserted", Cur(t), inserted_count[t])
                  /\ \/ pc'[t] = "update_token"
                     \/ custState'[Cur(t)] = "done"
      ]_vars

\* one of two fetched entries failed with a database error: the other is
\* counted and committed, and the worker is at its credential step
C13_Witness ==
    \E t \in TenantIds :
        /\ pc[t] = "update_token"
        /\ Len(transactions[t]) = 2
        /\ printed[t] = Line("inserted", Cur(t), 1)
        /\ RowsOf(bank_transactions \ storedBefore, Cur(t)) # {}

\* ---------------------------------------------------------------- C14
\* C14: within a customer the steps come in the order refresh, resolve,
\* fetch, insert loop, commit, credential update, each entered only from the
\* one before it; rows are inserted only in the insert loop, made durable only
\* by a commit, the credential is written only in the credential step; and a
\* customer that fails at refresh, resolve or fetch has had no insert, no
\* commit and no credential write in this run.
C14_PipelineOrder ==
    [][/\ \A t \in TenantIds :
            /\ pc'[t] = "resolve"
                 => (pc[t] \in {"refresh", "resolve"} /\ ci'[t] = ci[t])
            /\ pc'[t] = "fetch"
                 => (pc[t] \in {"resolve", "fetch"} /\ ci'[t] = ci[t])
            /\ pc'[t] = "insert"
                 => (pc[t] \in {"fetch", "insert"} /\ ci'[t] = ci[t])
            /\ pc'[t] = "commit"
                 => (pc[t] \in {"fetch", "insert", "commit"} /\ ci'[t] = ci[t])
            /\ pc'[t] = "update_token"
                 => (pc[t] \in {"commit", "update_token"} /\ ci'[t] = ci[t])
            /\ ~(uncommitted'[t] \subseteq uncommitted[t])
                 => /\ pc[t] = "insert"
                    /\ \A r \in uncommitted'[t] \ uncommitted[t] : r.customer_id = Cur(t)
            /\ (WorkerEnds(t) /\ pc[t] \in {"refresh", "resolve", "fetch"})
                 => /\ custState'[Cur(t)] = "failed"
                    /\ inserted_count[t] = 0 /\ transactions[t] = <<>>
                    /\ RowsOf(uncommitted'[t], Cur(t)) = {}
                    /\ RowsOf(bank_transactions' \ storedBefore, Cur(t)) = {}
                    /\ refresh_token'[Cur(t)] = Creds(t).refresh_token
       /\ bank_transactions' # bank_transactions
            => \E u \in TenantIds : pc[u] = "commit"
       /\ \A c \in CustomerIds :
            refresh_token'[c] # refresh_token[c]
              => \E u \in TenantIds : pc[u] = "update_token" /\ Cur(u) = c
      ]_vars

\* customer 1 failed before anything was inserted for it; customer 2 is next
C14_Witness ==
    /\ run = 1 /\ custState[1] = "failed"
    /\ pc[1] = "refresh" /\ ci[1] = 2
    /\ uncommitted[1] = {} /\ bank_transactions = {}
    /\ refresh_token[1] = 1

\* ---------------------------------------------------------------- C15
\* C15: a thread takes its customers one by one in the order of the loaded
\* list; the next customer's refresh starts only when the current customer
\* has ended (done or failed); a customer that has ended is never taken
\* again in the run, and a token exchange is made only once per customer.
C15_SequentialSingleAttempt ==
    [][run' = run =>
        /\ \A t \in TenantIds :
            /\ ci'[t] \in {ci[t], ci[t] + 1}
            /\ customers'[t] = customers[t] \/ pc[t] = "started"
            /\ (ci'[t] = ci[t] + 1 /\ ci[t] >= 1)
                 => /\ custState[Cur(t)] = "idle"
                    /\ custState'[Cur(t)] \in {"done", "failed"}
            /\ (pc'[t] = "refresh" /\ <<pc'[t], ci'[t]>> # <<pc[t], ci[t]>>)
                 => /\ ci'[t] = ci[t] + 1
                    /\ customers'[t][ci'[t]].customer_id
                         = get_customers_by_tenant(t)[ci'[t]].customer_id
                    /\ custState'[customers'[t][ci'[t]].customer_id] = "idle"
            /\ (InPipeline(t) /\ custState'[Cur(t)] # custState[Cur(t)])
                 => ci'[t] = ci[t] + 1
            /\ (new_refresh_token'[t] # new_refresh_token[t] /\ new_refresh_token'[t] # 0)
                 => /\ pc[t] = "refresh" /\ new_refresh_token[t] = 0
                    /\ pc'[t] = "resolve"
        /\ \A c \in CustomerIds :
            custState[c] \in {"done", "failed"} => custState'[c] = custState[c]
      ]_vars

\* customer 1 has failed and the thread has made customer 2's token exchange
C15_Witness ==
    /\ custState[1] = "failed" /\ custState[2] = "idle"
    /\ pc[1] = "resolve" /\ ci[1] = 2

\* ---------------------------------------------------------------- C16
\* C16: the credential step is entered only from a commit that made the
\* pending rows durable; when the credential write fails the committed rows
\* stay, the stored credential stays, the error is printed at the customer
\* boundary and the loop goes to the next customer (or to the close).
C16_CredentialFailureAfterCommit ==
    [][\A t \in TenantIds :
          /\ (pc'[t] = "update_token" /\ pc[t] # "update_token")
               => /\ pc[t] = "commit"
                  /\ uncommitted[t] \subseteq bank_transactions'
                  /\ uncommitted'[t] = {}
          /\ refresh_token' # refresh_token
               => \E u \in TenantIds :
                     /\ pc[u] = "update_token"
                     /\ \A c \in CustomerIds \ {Cur(u)} : refresh_token'[c] = refresh_token[c]
          /\ (pc[t] = "update_token" /\ custState'[Cur(t)] = "failed")
               => /\ bank_transactions' = bank_transactions
                  /\ refresh_token' = refresh_token
                  /\ printed'[t] = Line("customer_error", Cur(t), 0)
                  /\ ci'[t] = ci[t] + 1
                  /\ pc'[t] = IF ci[t] < Len(customers[t]) THEN "refresh" ELSE "close"
      ]_vars

\* tenant 2's only customer committed rows and then failed at its credential
\* write; the thread finished
C16_Witness ==
    /\ custState[3] = "failed" /\ pc[2] = "finished"
    /\ RowsOf(bank_transactions \ storedBefore, 3) # {}
    /\ refresh_token[3] = 1

\* ---------------------------------------------------------------- C17
\* C17: every stored row stays in the store as it is, in every step; the
\* tenants table is never written.
C17_RowsImmutable ==
    [][/\ \A r \in bank_transactions : r \in bank_transactions'
       /\ tenants' = tenants
      ]_vars

\* in a later run the insert loop has gone over an id that is stored, with
\* other field values than the stored row has; nothing is pending and the
\* stored row is as it was
C17_Witness ==
    /\ run >= 2
    /\ \E t \in TenantIds :
          /\ pc[t] = "commit" /\ uncommitted[t] = {}
          /\ \E i \in 1..Len(transactions[t]) :
                \E r \in storedBefore :
                    /\ UniqueKey(r) = <<t, Cur(t), transactions[t][i].BankTransactionID>>
                    /\ r.transaction_type # transactions[t][i].Type
                    /\ r.total # transactions[t][i].Total
                    /\ r \in bank_transactions

\* ---------------------------------------------------------------- C18
\* the step is one of thread t
OwnStep(t) == <<pc'[t], ci'[t], ti'[t]>> # <<pc[t], ci[t], ti[t]>>

\* C18: the rows pending on a thread's connection are its own tenant's; they
\* change only in a step of that thread; and what a step makes durable are
\* rows that were pending on the connection of the one thread that commits.
C18_ConnectionOwnership ==
    /\ [](\A t \in TenantIds : \A r \in uncommitted[t] : r.tenant_id = t)
    /\ [][/\ \A y \in TenantIds :
               uncommitted'[y] # uncommitted[y]
                 => /\ OwnStep(y)
                    /\ \A x \in TenantIds \ {y} : ~OwnStep(x)
          /\ bank_transactions' # bank_transactions
               => \E x \in TenantIds :
                     /\ pc[x] = "commit" /\ OwnStep(x)
                     /\ bank_transactions' \ bank_transactions \subseteq uncommitted[x]
                     /\ \A r \in bank_transactions' \ bank_transactions : r.tenant_id = x
         ]_vars

\* tenant x has committed rows in this run while tenant y holds pending rows
C18_Witness ==
    \E x, y \in TenantIds :
        /\ x # y
        /\ \E r \in bank_transactions \ storedBefore : r.tenant_id = x
        /\ uncommitted[y] # {}
        /\ pc[x] \in {"update_token", "close", "finished"}

====
